---- MODULE Spec2Model ----
(***************************************************************************)
(* Credential-gated command dispatch of the Kite MCP server, in its two    *)
(* variants: MCPv2.py (KiteMCPServer with kite/api_key/access_token/       *)
(* is_configured) and MCPv3.py (KiteMCPServer with kite only).             *)
(*                                                                         *)
(* The asyncio control loop runs one callback at a time up to its next     *)
(* await.  Each action below is one such run-to-await segment of a         *)
(* callback: the start of a handler, or its resumption when the worker     *)
(* call it awaits (asyncio.to_thread) has returned or raised.              *)
(***************************************************************************)
EXTENDS Integers, Sequences, FiniteSets, TLC

VARIABLES
    variant,        \* which program runs: "v2" (MCPv2.py) or "v3" (MCPv3.py)
    kite,           \* self.kite: 0 is None, otherwise a client object id
    api_key,        \* self.api_key (MCPv2 only)
    access_token,   \* self.access_token (MCPv2 only)
    is_configured,  \* self.is_configured (MCPv2 only)
    clients,        \* the KiteConnect objects constructed so far
    tasks,          \* the callbacks suspended at an await, one per slot
    out             \* the callback this step completed, with its reply

vars ==
    <<variant, kite, api_key, access_token, is_configured, clients, tasks, out>>
server == <<kite, api_key, access_token, is_configured>>

\* ------------------------------------------------------------------------
\* Bounds
\* ------------------------------------------------------------------------
MaxTasks == 2       \* callbacks suspended at once
MaxClients == 2     \* KiteConnect objects constructed in one run

Slots == 1..MaxTasks

\* ------------------------------------------------------------------------
\* Values
\* ------------------------------------------------------------------------
None == "None"

\* An argument bag (a Python dict) is a set of <<key, value>> pairs.
Has(bag, k) == \E p \in bag : p[1] = k
Get(bag, k) == (CHOOSE p \in bag : p[1] = k)[2]
GetOr(bag, k, d) == IF Has(bag, k) THEN Get(bag, k) ELSE d

\* An exception is its type and its message; str(e) of a KeyError is the
\* repr of the missing key, of any other exception the message itself.
KeyError(k) == [type |-> "KeyError", msg |-> <<k>>]
ValueError(m) == [type |-> "ValueError", msg |-> m]
AdapterError(d) == [type |-> "KiteException", msg |-> <<d>>]
NoExc == [type |-> "", msg |-> <<>>]
Str(e) == IF e.type = "KeyError" THEN <<"'">> \o e.msg \o <<"'">> ELSE e.msg

\* s occurs in t as a contiguous run of parts
Contains(t, s) ==
    \E i \in 0..(Len(t) - Len(s)) : \A j \in 1..Len(s) : t[i + j] = s[j]

\* Replies of a callback
NoReply == [kind |-> "none", exc |-> "", text |-> <<>>]
TextContent(t) == [kind |-> "text", exc |-> "", text |-> t]
Raised(e) == [kind |-> "fault", exc |-> e.type, text |-> Str(e)]
Payload(t) == [kind |-> "payload", exc |-> "", text |-> t]
Absent == [kind |-> "absent", exc |-> "", text |-> <<>>]

\* the fence around embedded JSON (three backquotes, written here as ~~~)
JsonOpen == "~~~json\n"
JsonClose == "\n~~~"

\* json.dumps of a list value: brackets around its elements
Dumps(v) == <<"[">> \o v \o <<"]">>

\* ------------------------------------------------------------------------
\* The brokerage adapter (kiteconnect.KiteConnect), as the environment
\* ------------------------------------------------------------------------
ApiKeys == {"k1", "k2"}
Tokens == {"t1", "t2"}
\* the remote accepts a client whose access token belongs to its api key
TokenOf(k) == IF k = "k1" THEN "t1" ELSE "t2"
Accepted(c) == c.token = TokenOf(c.api_key)
Profiles(k) ==
    IF k = "k1"
    THEN {{<<"user_id", "AB1">>, <<"user_name", "alice">>}, {<<"user_id", "AB1">>}}
    ELSE {{<<"user_id", "CD2">>, <<"user_name", "bob">>}}
AdapterErrors == {"order not found"}

NewClient(k) == [api_key |-> k, token |-> None, validated |-> FALSE]
NoClient == [api_key |-> None, token |-> None, validated |-> FALSE]
NClients == Cardinality({c \in 1..MaxClients : clients[c] # NoClient})

\* ------------------------------------------------------------------------
\* Callbacks
\* ------------------------------------------------------------------------
Idle ==
    [kind |-> "idle", name |-> "", args |-> {}, pc |-> "idle", client |-> 0,
     callargs |-> {}, calls |-> <<>>, reply |-> NoReply, made |-> 0,
     profile |-> {}, raised |-> NoExc, gate |-> FALSE, unvalidated |-> FALSE,
     during |-> FALSE, result |-> <<>>]

\* one entry of the record of adapter invocations a callback has made
Call(op, c, a, w) == [op |-> op, client |-> c, args |-> a, worker |-> w]

\* asyncio.to_thread(f, ...): hand the call to a worker and suspend at pc
ToThread(t, pc, op, c, a) ==
    [t EXCEPT !.pc = pc, !.client = c, !.callargs = a,
              !.calls = Append(@, Call(op, c, a, TRUE))]

\* the callback returns r (or raises it) to the protocol host
Return(t, r) == [t EXCEPT !.pc = "done", !.reply = r, !.client = 0, !.callargs = {}]

\* the awaited adapter call returned v to the callback
Got(t, v) == [t EXCEPT !.result = v]

\* the callback caught (or lets through) exception e and ends with r
Caught(t, e, r) == [Return(t, r) EXCEPT !.raised = e]

\* a callback entered with is_configured as it is now
Started(kind, name, args) ==
    [Idle EXCEPT !.kind = kind, !.name = name, !.args = args, !.pc = "run",
                 !.gate = is_configured]

\* the step leaves the callback of slot s as t: suspended, or completed
Step(s, t) ==
    IF t.pc = "done"
    THEN /\ tasks' = [tasks EXCEPT ![s] = Idle]
         /\ out' = t
    ELSE /\ tasks' = [tasks EXCEPT ![s] = t]
         /\ out' = Idle

InFlight(pcs) == Cardinality({s \in Slots : tasks[s].pc \in pcs})

Init ==
    /\ variant \in {"v2", "v3"}
    /\ kite = 0
    /\ api_key = None
    /\ access_token = None
    /\ is_configured = FALSE
    /\ clients = [c \in 1..MaxClients |-> NoClient]
    /\ tasks = [s \in Slots |-> Idle]
    /\ out = Idle

\* ------------------------------------------------------------------------
\* Inputs of the callbacks
\* ------------------------------------------------------------------------
ConfigureBags ==
    {{<<"api_key", k>>, <<"access_token", TokenOf(k)>>} : k \in ApiKeys}
        \cup {{<<"api_key", "k1">>}}
QuoteBags == {{<<"instruments", "INFY">>, <<"symbols", "INFY">>}}
RequiredOrderKeys ==
    {"tradingsymbol", "symbol", "exchange", "transaction_type", "quantity",
     "product", "order_type"}
FullOrder ==
    {<<"tradingsymbol", "INFY">>, <<"symbol", "INFY">>, <<"exchange", "NSE">>,
     <<"transaction_type", "BUY">>, <<"quantity", "1">>, <<"product", "CNC">>,
     <<"order_type", "LIMIT">>}
OptionalOrder ==
    {{}, {<<"price", "100">>}, {<<"trigger_price", "95">>, <<"tag", "x">>},
     {<<"price", "100">>, <<"trigger_price", "95">>, <<"variety", "amo">>}}
Without(bag, k) == {p \in bag : p[1] # k}
PlaceOrderBags == {FullOrder, Without(FullOrder, "quantity")}
ModifyOrderBags == {{<<"order_id", "o1">>, <<"quantity", "2">>}, {<<"quantity", "2">>}}
CancelOrderBags == {{<<"order_id", "o1">>}, {}}
EmptyBags == {{}}
ToolNames ==
    {"configure_kite", "configure", "get_quote", "quote", "place_order",
     "modify_order", "cancel_order", "get_holdings", "get_gtt_orders",
     "delete_account"}
\* the bags tried when callbacks overlap
Bags(name) ==
    CASE name \in {"configure_kite", "configure"} -> ConfigureBags
      [] name \in {"get_quote", "quote"} -> QuoteBags
      [] name = "place_order" -> PlaceOrderBags
      [] name = "modify_order" -> ModifyOrderBags
      [] name = "cancel_order" -> CancelOrderBags
      [] OTHER -> EmptyBags
\* the bags tried when callbacks run one after the other
AllBags(name) ==
    CASE name \in {"configure_kite", "configure"} ->
            {{<<"api_key", "k1">>, <<"access_token", t>>} : t \in Tokens}
                \cup {{<<"api_key", "k1">>}, {<<"access_token", "t1">>}, {}}
      [] name \in {"get_quote", "quote"} ->
            QuoteBags \cup {{<<"instruments", "INFY">>}, {<<"symbols", "INFY">>}}
      [] name = "place_order" ->
            {Without(FullOrder, k) \cup o :
                k \in RequiredOrderKeys \cup {"none"}, o \in OptionalOrder}
      [] name = "modify_order" ->
            ModifyOrderBags \cup
                {{<<"order_id", "o1">>},
                 {<<"order_id", "o1">>, <<"price", "101">>, <<"tag", "x">>}}
      [] name = "cancel_order" -> CancelOrderBags
      [] OTHER -> EmptyBags
Uris ==
    {"kite://profile", "kite://portfolio", "kite://positions", "kite://orders",
     "kite://funds", "kite://gtt-orders", "kite://unknown"}

\* what the adapter's read operations can return
Results(op) ==
    CASE op = "quote" -> {<<"INFY=100">>}
      [] op = "holdings" -> {<<>>, <<"h1">>}
      [] op = "gtts" -> {<<>>, <<"g1">>}
      [] op = "positions" -> {<<"p1">>}
      [] op = "orders" -> {<<"o1">>}
      [] op = "margins" -> {<<"m1">>}
      [] op = "place_order" -> {<<"o2">>}
      [] op = "profile" -> {<<"AB1">>}
      [] OTHER -> {<<"ok">>}
Failures == {AdapterError(d) : d \in AdapterErrors}

\* ------------------------------------------------------------------------
\* MCPv2.py
\* ------------------------------------------------------------------------
_check_kite_connection == kite # 0 /\ is_configured

\* the except branch, had it not reset is_configured
_configure_kite_except_keeps(s, t, e) ==
    /\ is_configured' = is_configured
    /\ Step(s, Caught(t, e, TextContent(<<" Error configuring Kite: ">> \o Str(e))))

\* _configure_kite, except branch (lines 241-244)
_configure_kite_except(s, t, e) ==
    /\ is_configured' = FALSE
    /\ Step(s, Caught(t, e, TextContent(<<" Error configuring Kite: ">> \o Str(e))))

\* _configure_kite up to its first await, had it set is_configured before the
\* client exists
_configure_kite_eager(s, arguments) ==
    LET t == Started("tool", "configure_kite", arguments) IN
    IF ~Has(arguments, "api_key")
    THEN /\ _configure_kite_except(s, t, KeyError("api_key"))
         /\ UNCHANGED <<variant, kite, api_key, access_token, clients>>
    ELSE IF ~Has(arguments, "access_token")
    THEN /\ api_key' = Get(arguments, "api_key")
         /\ _configure_kite_except(s, t, KeyError("access_token"))
         /\ UNCHANGED <<variant, kite, access_token, clients>>
    ELSE /\ NClients + InFlight({"construct"}) < MaxClients
         /\ api_key' = Get(arguments, "api_key")
         /\ access_token' = Get(arguments, "access_token")
         /\ is_configured' = TRUE
         /\ Step(s, ToThread(t, "construct", "KiteConnect", 0,
                             {<<"api_key", Get(arguments, "api_key")>>}))
         /\ UNCHANGED <<variant, kite, clients>>

\* _configure_kite from its entry to the first await (lines 215-222)
_configure_kite(s, arguments) ==
    LET t == Started("tool", "configure_kite", arguments) IN
    IF ~Has(arguments, "api_key")
    THEN /\ _configure_kite_except(s, t, KeyError("api_key"))
         /\ UNCHANGED <<variant, kite, api_key, access_token, clients>>
    ELSE IF ~Has(arguments, "access_token")
    THEN /\ api_key' = Get(arguments, "api_key")
         /\ _configure_kite_except(s, t, KeyError("access_token"))
         /\ UNCHANGED <<variant, kite, access_token, clients>>
    ELSE /\ NClients + InFlight({"construct"}) < MaxClients
         /\ api_key' = Get(arguments, "api_key")
         /\ access_token' = Get(arguments, "access_token")
         /\ Step(s, ToThread(t, "construct", "KiteConnect", 0,
                             {<<"api_key", Get(arguments, "api_key")>>}))
         /\ UNCHANGED <<variant, kite, is_configured, clients>>

\* KiteConnect(api_key=...) returned or raised; on return lines 222-226
_configure_kite_constructed(s) ==
    LET t == tasks[s]
        c == NClients + 1
    IN
    /\ variant = "v2" /\ t.name = "configure_kite" /\ t.pc = "construct"
    /\ \/ /\ clients' = [clients EXCEPT ![c] = NewClient(Get(t.callargs, "api_key"))]
          /\ kite' = c
          /\ Step(s, [ToThread(t, "set_access_token", "set_access_token", c,
                               {<<"access_token", access_token>>})
                        EXCEPT !.made = c])
          /\ UNCHANGED <<variant, api_key, access_token, is_configured>>
       \/ \E e \in Failures :
          /\ _configure_kite_except(s, t, e)
          /\ UNCHANGED <<variant, kite, api_key, access_token, clients>>

\* set_access_token returned or raised; on return lines 226-230
_configure_kite_token_set(s) ==
    LET t == tasks[s]
        c == t.client
        tok == Get(t.callargs, "access_token")
    IN
    /\ variant = "v2" /\ t.name = "configure_kite" /\ t.pc = "set_access_token"
    /\ \/ /\ clients' = [clients EXCEPT ![c].token = tok,
                                        ![c].validated = @ /\ clients[c].token = tok]
          /\ Step(s, ToThread(t, "profile", "profile", kite, {}))
          /\ UNCHANGED <<variant, kite, api_key, access_token, is_configured>>
       \/ \E e \in Failures :
          /\ _configure_kite_except(s, t, e)
          /\ UNCHANGED <<variant, kite, api_key, access_token, clients>>

\* the resumption after profile(), had it not set is_configured
_configure_kite_profile_unset(s) ==
    LET t == tasks[s]
        c == t.client
    IN
    /\ variant = "v2" /\ t.name = "configure_kite" /\ t.pc = "profile"
    /\ \/ \E profile \in Profiles(clients[c].api_key) :
          /\ Accepted(clients[c])
          /\ clients' = [clients EXCEPT ![c].validated = TRUE]
          /\ is_configured' = is_configured
          /\ Step(s, [Return(t, TextContent(
                        <<" Kite Connect configured successfully!\nUser: ",
                          GetOr(profile, "user_name", "N/A")>>))
                        EXCEPT !.profile = profile, !.client = c])
          /\ UNCHANGED <<variant, kite, api_key, access_token>>
       \/ \E e \in Failures :
          /\ _configure_kite_except(s, t, e)
          /\ UNCHANGED <<variant, kite, api_key, access_token, clients>>

\* profile() returned or raised; on return lines 230-240
_configure_kite_profile(s) ==
    LET t == tasks[s]
        c == t.client
    IN
    /\ variant = "v2" /\ t.name = "configure_kite" /\ t.pc = "profile"
    /\ \/ \E profile \in Profiles(clients[c].api_key) :
          /\ Accepted(clients[c])
          /\ clients' = [clients EXCEPT ![c].validated = TRUE]
          /\ is_configured' = TRUE
          /\ Step(s, [Return(t, TextContent(
                        <<" Kite Connect configured successfully!\nUser: ",
                          GetOr(profile, "user_name", "N/A")>>))
                        EXCEPT !.profile = profile, !.client = c])
          /\ UNCHANGED <<variant, kite, api_key, access_token>>
       \/ \E e \in Failures :
          /\ _configure_kite_except(s, t, e)
          /\ UNCHANGED <<variant, kite, api_key, access_token, clients>>

\* a non-configure handler hands self.kite.<op>(a) to a worker
Dispatch(t, op, a) ==
    [ToThread(t, "call", op, kite, a)
        EXCEPT !.unvalidated = ~(clients[kite].token # None /\ clients[kite].validated),
               !.during = \E s \in Slots : tasks[s].name \in {"configure_kite", "configure"}]

\* the except clause of a MCPv2 handler: the text names the failure
Failed(t, prefix, e) == Caught(t, e, TextContent(<<prefix>> \o Str(e)))

\* how the awaited call of slot s can end: it returns a value, which takes
\* credentials the remote accepts, or it raises
Outcomes(s) ==
    {[ok |-> TRUE, value |-> r, e |-> NoExc] :
        r \in IF Accepted(clients[tasks[s].client])
              THEN Results(Head(tasks[s].calls).op) ELSE {}}
    \cup {[ok |-> FALSE, value |-> <<>>, e |-> e] : e \in Failures}

Awaiting(s, v, kind, name) ==
    /\ variant = v
    /\ tasks[s].kind = kind /\ tasks[s].name = name /\ tasks[s].pc = "call"

NotConfigured == TextContent(<<" Kite not configured.">>)

\* _get_quote up to its await (lines 246-251)
_get_quote(s, arguments) ==
    LET t == Started("tool", "get_quote", arguments) IN
    /\ Step(s, IF kite = 0 THEN Return(t, NotConfigured)
               ELSE IF ~Has(arguments, "instruments")
               THEN Failed(t, " Error getting quotes: ", KeyError("instruments"))
               ELSE Dispatch(t, "quote",
                             {<<"instruments", Get(arguments, "instruments")>>}))
    /\ UNCHANGED <<variant, server, clients>>

\* _get_quote after its await, had the awaited results been kept in one place
\* shared by the callbacks in flight
_get_quote_done_shared(s) ==
    /\ Awaiting(s, "v2", "tool", "get_quote")
    /\ \E r \in {r \in Slots : tasks[r].pc = "call"} :
       \E o \in Outcomes(r) : LET quotes == o.value  e == o.e IN
         /\ Step(s, IF o.ok
                THEN Return(Got(tasks[s], o.value), TextContent(<<" Real-time Quotes:\n", JsonOpen>> \o Dumps(quotes) \o <<JsonClose>>))
                ELSE Failed(tasks[s], " Error getting quotes: ", e))
    /\ UNCHANGED <<variant, server, clients>>

\* _get_quote after its await (lines 251-260)
_get_quote_done(s) ==
    /\ Awaiting(s, "v2", "tool", "get_quote")
    /\ \E o \in Outcomes(s) : LET quotes == o.value  e == o.e IN
         /\ Step(s, IF o.ok
                THEN Return(Got(tasks[s], o.value), TextContent(<<" Real-time Quotes:\n", JsonOpen>> \o Dumps(quotes) \o <<JsonClose>>))
                ELSE Failed(tasks[s], " Error getting quotes: ", e))
    /\ UNCHANGED <<variant, server, clients>>

\* the first key of ks (in evaluation order) that the bag lacks, or None
FirstMissing(arguments, ks) ==
    IF \A i \in 1..Len(ks) : Has(arguments, ks[i]) THEN None
    ELSE ks[CHOOSE i \in 1..Len(ks) :
                /\ ~Has(arguments, ks[i])
                /\ \A j \in 1..(i - 1) : Has(arguments, ks[j])]

OrderKeys ==
    <<"tradingsymbol", "exchange", "transaction_type", "quantity", "product",
      "order_type">>

\* order_params, had trigger_price not been copied from the bag
order_params_no_trigger(arguments) ==
    {<<OrderKeys[i], Get(arguments, OrderKeys[i])>> : i \in 1..Len(OrderKeys)}
        \cup {<<"variety", GetOr(arguments, "variety", "regular")>>}
        \cup {p \in arguments : p[1] \in {"price"}}

\* order_params of _place_order (lines 266-278)
order_params(arguments) ==
    {<<OrderKeys[i], Get(arguments, OrderKeys[i])>> : i \in 1..Len(OrderKeys)}
        \cup {<<"variety", GetOr(arguments, "variety", "regular")>>}
        \cup {p \in arguments : p[1] \in {"price", "trigger_price"}}

\* _place_order, had it read quantity with a default instead of indexing
_place_order_lenient(s, arguments) ==
    LET t == Started("tool", "place_order", arguments)
        missing == FirstMissing(arguments \cup {<<"quantity", "1">>}, OrderKeys)
    IN
    /\ Step(s, IF kite = 0 THEN Return(t, NotConfigured)
               ELSE IF missing # None
               THEN Failed(t, " Error placing order: ", KeyError(missing))
               ELSE Dispatch(t, "place_order",
                        order_params({<<"quantity", "1">>} \cup Without(arguments, "quantity"))
                            \cup {p \in arguments : p[1] = "quantity"}))
    /\ UNCHANGED <<variant, server, clients>>

\* _place_order up to its await (lines 262-279)
_place_order(s, arguments) ==
    LET t == Started("tool", "place_order", arguments)
        missing == FirstMissing(arguments, OrderKeys)
    IN
    /\ Step(s, IF kite = 0 THEN Return(t, NotConfigured)
               ELSE IF missing # None
               THEN Failed(t, " Error placing order: ", KeyError(missing))
               ELSE Dispatch(t, "place_order", order_params(arguments)))
    /\ UNCHANGED <<variant, server, clients>>

\* _place_order after its await (lines 279-288)
_place_order_done(s) ==
    /\ Awaiting(s, "v2", "tool", "place_order")
    /\ \E o \in Outcomes(s) : LET order_id == o.value  e == o.e IN
         /\ Step(s, IF o.ok
                THEN Return(Got(tasks[s], o.value), TextContent(<<" Order placed successfully!\nOrder ID: ">> \o order_id))
                ELSE Failed(tasks[s], " Error placing order: ", e))
    /\ UNCHANGED <<variant, server, clients>>

\* _modify_order up to its await, had it passed only the mutable order
\* fields it knows
_modify_order_allow_list(s, arguments) ==
    LET t == Started("tool", "modify_order", arguments) IN
    /\ Step(s, IF kite = 0 THEN Return(t, NotConfigured)
               ELSE IF ~Has(arguments, "order_id")
               THEN Failed(t, " Error modifying order: ", KeyError("order_id"))
               ELSE Dispatch(t, "modify_order",
                        {<<"order_id", Get(arguments, "order_id")>>}
                            \cup {p \in arguments :
                                    p[1] \in {"variety", "quantity", "price",
                                              "order_type", "trigger_price"}}))
    /\ UNCHANGED <<variant, server, clients>>

\* _modify_order up to its await (lines 290-296)
_modify_order(s, arguments) ==
    LET t == Started("tool", "modify_order", arguments) IN
    /\ Step(s, IF kite = 0 THEN Return(t, NotConfigured)
               ELSE IF ~Has(arguments, "order_id")
               THEN Failed(t, " Error modifying order: ", KeyError("order_id"))
               ELSE Dispatch(t, "modify_order",
                        {<<"order_id", Get(arguments, "order_id")>>}
                            \cup {p \in arguments : p[1] # "order_id"}))
    /\ UNCHANGED <<variant, server, clients>>

\* _modify_order after its await (lines 296-305)
_modify_order_done(s) ==
    /\ Awaiting(s, "v2", "tool", "modify_order")
    /\ \E o \in Outcomes(s) : LET result == o.value  e == o.e IN
         /\ Step(s, IF o.ok
                THEN Return(Got(tasks[s], o.value), TextContent(<<" Order modified successfully!\nOrder ID: ",
                       Get(tasks[s].args, "order_id")>>))
                ELSE Failed(tasks[s], " Error modifying order: ", e))
    /\ UNCHANGED <<variant, server, clients>>

\* _cancel_order up to its await (lines 307-312)
_cancel_order(s, arguments) ==
    LET t == Started("tool", "cancel_order", arguments) IN
    /\ Step(s, IF kite = 0 THEN Return(t, NotConfigured)
               ELSE IF ~Has(arguments, "order_id")
               THEN Failed(t, " Error cancelling order: ", KeyError("order_id"))
               ELSE Dispatch(t, "cancel_order",
                             {<<"order_id", Get(arguments, "order_id")>>}))
    /\ UNCHANGED <<variant, server, clients>>

\* the resumption of _cancel_order, had its except clause a fixed message
_cancel_order_done_generic(s) ==
    /\ Awaiting(s, "v2", "tool", "cancel_order")
    /\ \E o \in Outcomes(s) : LET result == o.value  e == o.e IN
         /\ Step(s, IF o.ok
                THEN Return(Got(tasks[s], o.value), TextContent(<<" Order cancelled successfully!\nOrder ID: ",
                       Get(tasks[s].args, "order_id")>>))
                ELSE Caught(tasks[s], e, TextContent(<<" Error cancelling order">>)))
    /\ UNCHANGED <<variant, server, clients>>

\* _cancel_order after its await (lines 312-321)
_cancel_order_done(s) ==
    /\ Awaiting(s, "v2", "tool", "cancel_order")
    /\ \E o \in Outcomes(s) : LET result == o.value  e == o.e IN
         /\ Step(s, IF o.ok
                THEN Return(Got(tasks[s], o.value), TextContent(<<" Order cancelled successfully!\nOrder ID: ",
                       Get(tasks[s].args, "order_id")>>))
                ELSE Failed(tasks[s], " Error cancelling order: ", e))
    /\ UNCHANGED <<variant, server, clients>>

\* _get_holdings up to its await, had it called the positions operation
_get_holdings_positions(s, arguments) ==
    LET t == Started("tool", "get_holdings", arguments) IN
    /\ Step(s, IF kite = 0 THEN Return(t, NotConfigured)
               ELSE Dispatch(t, "positions", {}))
    /\ UNCHANGED <<variant, server, clients>>

\* _get_holdings up to its await (lines 323-327)
_get_holdings(s, arguments) ==
    LET t == Started("tool", "get_holdings", arguments) IN
    /\ Step(s, IF kite = 0 THEN Return(t, NotConfigured)
               ELSE Dispatch(t, "holdings", {}))
    /\ UNCHANGED <<variant, server, clients>>

\* _get_holdings after its await, had it answered an empty result the way
\* _get_gtt_orders does
_get_holdings_done_empty_message(s) ==
    /\ Awaiting(s, "v2", "tool", "get_holdings")
    /\ \E o \in Outcomes(s) : LET holdings == o.value  e == o.e IN
         /\ Step(s, IF o.ok
                THEN Return(Got(tasks[s], o.value),
                        IF holdings = <<>> THEN TextContent(<<"No holdings found.">>)
                        ELSE TextContent(<<" Current Holdings:\n", JsonOpen>> \o Dumps(holdings) \o <<JsonClose>>))
                ELSE Failed(tasks[s], " Error getting holdings: ", e))
    /\ UNCHANGED <<variant, server, clients>>

\* _get_holdings after its await (lines 327-336)
_get_holdings_done(s) ==
    /\ Awaiting(s, "v2", "tool", "get_holdings")
    /\ \E o \in Outcomes(s) : LET holdings == o.value  e == o.e IN
         /\ Step(s, IF o.ok
                THEN Return(Got(tasks[s], o.value), TextContent(<<" Current Holdings:\n", JsonOpen>> \o Dumps(holdings) \o <<JsonClose>>))
                ELSE Failed(tasks[s], " Error getting holdings: ", e))
    /\ UNCHANGED <<variant, server, clients>>

\* _get_gtt_orders up to its await (lines 338-342)
_get_gtt_orders(s, arguments) ==
    LET t == Started("tool", "get_gtt_orders", arguments) IN
    /\ Step(s, IF ~_check_kite_connection
               THEN Return(t, TextContent(
                    <<" Kite Connect not configured. Use configure_kite tool first.">>))
               ELSE Dispatch(t, "gtts", {}))
    /\ UNCHANGED <<variant, server, clients>>

\* _get_gtt_orders after its await, had its except clause reset is_configured
_get_gtt_orders_done_resets(s) ==
    /\ Awaiting(s, "v2", "tool", "get_gtt_orders")
    /\ \E o \in Outcomes(s) : LET gtt_orders == o.value  e == o.e IN
         /\ Step(s, IF ~o.ok
                THEN Failed(tasks[s], " Failed to retrieve GTT orders: ", e)
                ELSE Return(Got(tasks[s], o.value), TextContent(
                    IF gtt_orders = <<>> THEN <<"No active GTT orders found.">>
                    ELSE <<" Active GTT Orders:\n", JsonOpen>> \o Dumps(gtt_orders)
                            \o <<JsonClose>>)))
         /\ is_configured' = (o.ok /\ is_configured)
    /\ UNCHANGED <<variant, kite, api_key, access_token, clients>>

\* _get_gtt_orders after its await (lines 342-354)
_get_gtt_orders_done(s) ==
    /\ Awaiting(s, "v2", "tool", "get_gtt_orders")
    /\ \E o \in Outcomes(s) : LET gtt_orders == o.value  e == o.e IN
         /\ Step(s, IF ~o.ok
                THEN Failed(tasks[s], " Failed to retrieve GTT orders: ", e)
                ELSE Return(Got(tasks[s], o.value), TextContent(
                    IF gtt_orders = <<>> THEN <<"No active GTT orders found.">>
                    ELSE <<" Active GTT Orders:\n", JsonOpen>> \o Dumps(gtt_orders)
                            \o <<JsonClose>>)))
    /\ UNCHANGED <<variant, server, clients>>

\* call_kite_tool, the else branch and the except (lines 206-210)
unknown_tool(s, name, arguments) ==
    LET t == Started("tool", name, arguments) IN
    /\ Step(s, Return(t, TextContent(<<" Tool '", name, "' failed: ">>
                            \o Str(ValueError(<<"Unknown tool: ", name>>)))))
    /\ UNCHANGED <<variant, server, clients>>

\* call_kite_tool (lines 188-210)
call_kite_tool(s, name, arguments) ==
    /\ variant = "v2"
    /\ tasks[s].pc = "idle"
    /\ \/ name = "configure_kite" /\ _configure_kite(s, arguments)
       \/ name = "get_quote" /\ _get_quote(s, arguments)
       \/ name = "place_order" /\ _place_order(s, arguments)
       \/ name = "modify_order" /\ _modify_order(s, arguments)
       \/ name = "cancel_order" /\ _cancel_order(s, arguments)
       \/ name = "get_holdings" /\ _get_holdings(s, arguments)
       \/ name = "get_gtt_orders" /\ _get_gtt_orders(s, arguments)
       \/ /\ name \notin {"configure_kite", "get_quote", "place_order",
                          "modify_order", "cancel_order", "get_holdings",
                          "get_gtt_orders"}
          /\ unknown_tool(s, name, arguments)

\* the uri table, had its last branch been a default read
_fetch_resource_data_default(uri) ==
    CASE uri = "kite://profile" -> "profile"
      [] uri = "kite://portfolio" -> "holdings"
      [] uri = "kite://positions" -> "positions"
      [] uri = "kite://orders" -> "orders"
      [] uri = "kite://funds" -> "margins"
      [] OTHER -> "gtts"

\* _fetch_resource_data, the uri table (lines 76-90)
_fetch_resource_data(uri) ==
    CASE uri = "kite://profile" -> "profile"
      [] uri = "kite://portfolio" -> "holdings"
      [] uri = "kite://positions" -> "positions"
      [] uri = "kite://orders" -> "orders"
      [] uri = "kite://funds" -> "margins"
      [] uri = "kite://gtt-orders" -> "gtts"
      [] OTHER -> None

\* the callback raises e to the protocol host
Raise(t, e) == Caught(t, e, Raised(e))

\* the except clause of read_kite_resource, had it answered with a text the
\* way the tool handlers do
ReadFailed_as_text(t, uri, e) ==
    Caught(t, e, Payload(<<"Failed to read resource ", uri, ": ">> \o Str(e)))

\* the except clause of read_kite_resource (lines 72-74)
ReadFailed(t, uri, e) ==
    Caught(t, e, Raised(ValueError(<<"Failed to read resource ", uri, ": ">> \o Str(e))))

\* read_kite_resource up to its await (lines 64-70, 72-74)
read_kite_resource(s, uri) ==
    LET t == Started("read", uri, {}) IN
    /\ variant = "v2"
    /\ tasks[s].pc = "idle"
    /\ Step(s, IF ~_check_kite_connection
               THEN Raise(t, ValueError(
                    <<" Kite Connect not configured. Use configure_kite tool first.">>))
               ELSE IF _fetch_resource_data(uri) = None
               THEN ReadFailed(t, uri, ValueError(<<"Unknown resource URI: ", uri>>))
               ELSE Dispatch(t, _fetch_resource_data(uri), {}))
    /\ UNCHANGED <<variant, server, clients>>

\* read_kite_resource after its await (lines 70-74)
read_kite_resource_done(s) ==
    /\ variant = "v2" /\ tasks[s].kind = "read" /\ tasks[s].pc = "call"
    /\ \E o \in Outcomes(s) : LET resource_data == o.value  e == o.e IN
         /\ Step(s, IF o.ok THEN Return(Got(tasks[s], o.value), Payload(Dumps(resource_data)))
                    ELSE ReadFailed(tasks[s], tasks[s].name, e))
    /\ UNCHANGED <<variant, server, clients>>

\* list_kite_resources (lines 53-62)
list_kite_resources(s) ==
    /\ variant = "v2"
    /\ tasks[s].pc = "idle"
    /\ Step(s, Return(Started("list", "resources", {}),
                      Payload(<<"kite://profile", "kite://portfolio", "kite://positions",
                                "kite://orders", "kite://funds", "kite://gtt-orders">>)))
    /\ UNCHANGED <<variant, server, clients>>

\* list_kite_tools (lines 93-186)
list_kite_tools(s) ==
    /\ variant = "v2"
    /\ tasks[s].pc = "idle"
    /\ Step(s, Return(Started("list", "tools", {}),
                      Payload(<<"configure_kite", "get_quote", "place_order",
                                "modify_order", "cancel_order", "get_holdings",
                                "get_gtt_orders">>)))
    /\ UNCHANGED <<variant, server, clients>>

\* ------------------------------------------------------------------------
\* MCPv3.py
\* ------------------------------------------------------------------------
\* the except clause of call_tool (lines 104-105)
Error(t, e) == Caught(t, e, TextContent(<<"Error: ">> \o Str(e)))
ConfigureFirst == TextContent(<<"Configure first">>)

\* call_tool, configure branch up to its await (lines 65-68); the client is
\* constructed and given its token on the control loop itself
call_tool_configure(s, arguments) ==
    LET t == Started("tool", "configure", arguments)
        c == NClients + 1
        k == {p \in arguments : p[1] = "api_key"}
        a == {p \in arguments : p[1] = "access_token"}
        t1 == [t EXCEPT !.calls = <<Call("KiteConnect", 0, k, FALSE)>>]
        t2 == [t1 EXCEPT !.made = c,
                         !.calls = Append(@, Call("set_access_token", c, a, FALSE))]
    IN
    IF ~Has(arguments, "api_key")
    THEN /\ Step(s, Error(t, KeyError("api_key")))
         /\ UNCHANGED <<variant, server, clients>>
    ELSE /\ NClients < MaxClients
         /\ \/ \E e \in Failures :
                /\ Step(s, Error(t1, e))
                /\ UNCHANGED <<variant, server, clients>>
            \/ /\ ~Has(arguments, "access_token")
               /\ kite' = c
               /\ clients' = [clients EXCEPT ![c] = NewClient(Get(arguments, "api_key"))]
               /\ Step(s, Error([t1 EXCEPT !.made = c], KeyError("access_token")))
               /\ UNCHANGED <<variant, api_key, access_token, is_configured>>
            \/ /\ Has(arguments, "access_token")
               /\ kite' = c
               /\ \/ \E e \in Failures :
                      /\ clients' = [clients EXCEPT ![c] =
                                        NewClient(Get(arguments, "api_key"))]
                      /\ Step(s, Error(t2, e))
                   \/ /\ clients' = [clients EXCEPT ![c] =
                            [NewClient(Get(arguments, "api_key"))
                                EXCEPT !.token = Get(arguments, "access_token")]]
                      /\ Step(s, ToThread(t2, "profile", "profile", c, {}))
               /\ UNCHANGED <<variant, api_key, access_token, is_configured>>

\* call_tool, configure branch after its await (lines 68-69, 104-105)
call_tool_configure_profile(s) ==
    LET t == tasks[s]
        c == t.client
    IN
    /\ variant = "v3" /\ t.name = "configure" /\ t.pc = "profile"
    /\ \/ \E profile \in Profiles(clients[c].api_key) :
          /\ Accepted(clients[c])
          /\ clients' = [clients EXCEPT ![c].validated = TRUE]
          /\ Step(s, [Return(t, TextContent(
                        <<"Connected: ", GetOr(profile, "user_name", None)>>))
                        EXCEPT !.profile = profile, !.client = c])
       \/ \E e \in Failures :
          /\ Step(s, Error(t, e))
          /\ UNCHANGED clients
    /\ UNCHANGED <<variant, server>>

\* call_tool, quote branch up to its await (lines 71-74)
call_tool_quote(s, arguments) ==
    LET t == Started("tool", "quote", arguments) IN
    /\ Step(s, IF kite = 0 THEN Return(t, ConfigureFirst)
               ELSE IF ~Has(arguments, "symbols")
               THEN Error(t, KeyError("symbols"))
               ELSE Dispatch(t, "quote", {<<"symbols", Get(arguments, "symbols")>>}))
    /\ UNCHANGED <<variant, server, clients>>

\* call_tool, quote branch after its await (lines 74-75, 104-105)
call_tool_quote_done(s) ==
    /\ Awaiting(s, "v3", "tool", "quote")
    /\ \E o \in Outcomes(s) : LET quotes == o.value  e == o.e IN
         /\ Step(s, IF o.ok
                THEN Return(Got(tasks[s], o.value), TextContent(<<"Quotes:\n", JsonOpen>> \o Dumps(quotes) \o <<JsonClose>>))
                ELSE Error(tasks[s], e))
    /\ UNCHANGED <<variant, server, clients>>

V3OrderKeys ==
    <<"symbol", "exchange", "transaction_type", "quantity", "product",
      "order_type">>

\* the keyword arguments of the place_order branch (lines 81-88)
place_order_kwargs(arguments) ==
    {<<"tradingsymbol", Get(arguments, "symbol")>>,
     <<"price", GetOr(arguments, "price", None)>>,
     <<"variety", "regular">>}
        \cup {<<V3OrderKeys[i], Get(arguments, V3OrderKeys[i])>> : i \in 2..Len(V3OrderKeys)}

\* call_tool, place_order branch up to its await (lines 77-89)
call_tool_place_order(s, arguments) ==
    LET t == Started("tool", "place_order", arguments)
        missing == FirstMissing(arguments, V3OrderKeys)
    IN
    /\ Step(s, IF kite = 0 THEN Return(t, ConfigureFirst)
               ELSE IF missing # None THEN Error(t, KeyError(missing))
               ELSE Dispatch(t, "place_order", place_order_kwargs(arguments)))
    /\ UNCHANGED <<variant, server, clients>>

\* call_tool, place_order branch after its await (lines 80-90, 104-105)
call_tool_place_order_done(s) ==
    /\ Awaiting(s, "v3", "tool", "place_order")
    /\ \E o \in Outcomes(s) : LET order_id == o.value  e == o.e IN
         /\ Step(s, IF o.ok
                THEN Return(Got(tasks[s], o.value), TextContent(<<"Order placed: ">> \o order_id))
                ELSE Error(tasks[s], e))
    /\ UNCHANGED <<variant, server, clients>>

\* call_tool, get_holdings branch up to its await (lines 92-95)
call_tool_get_holdings(s, arguments) ==
    LET t == Started("tool", "get_holdings", arguments) IN
    /\ Step(s, IF kite = 0 THEN Return(t, ConfigureFirst)
               ELSE Dispatch(t, "holdings", {}))
    /\ UNCHANGED <<variant, server, clients>>

\* call_tool, get_holdings branch after its await (lines 95-96, 104-105)
call_tool_get_holdings_done(s) ==
    /\ Awaiting(s, "v3", "tool", "get_holdings")
    /\ \E o \in Outcomes(s) : LET holdings == o.value  e == o.e IN
         /\ Step(s, IF o.ok
                THEN Return(Got(tasks[s], o.value), TextContent(<<"Holdings:\n", JsonOpen>> \o Dumps(holdings)
                                    \o <<JsonClose>>))
                ELSE Error(tasks[s], e))
    /\ UNCHANGED <<variant, server, clients>>

\* call_tool, get_gtt_orders branch up to its await (lines 98-101)
call_tool_get_gtt_orders(s, arguments) ==
    LET t == Started("tool", "get_gtt_orders", arguments) IN
    /\ Step(s, IF kite = 0 THEN Return(t, ConfigureFirst)
               ELSE Dispatch(t, "gtts", {}))
    /\ UNCHANGED <<variant, server, clients>>

\* call_tool, get_gtt_orders branch after its await (lines 101-105)
call_tool_get_gtt_orders_done(s) ==
    /\ Awaiting(s, "v3", "tool", "get_gtt_orders")
    /\ \E o \in Outcomes(s) : LET gtt_orders == o.value  e == o.e IN
         /\ Step(s, IF o.ok
                THEN Return(Got(tasks[s], o.value), TextContent(<<"GTT Orders:\n", JsonOpen>> \o Dumps(gtt_orders)
                                    \o <<JsonClose>>))
                ELSE Error(tasks[s], e))
    /\ UNCHANGED <<variant, server, clients>>

\* call_tool when no branch matches: the function falls off its end (line 103)
call_tool_no_branch(s, name, arguments) ==
    /\ Step(s, Return(Started("tool", name, arguments), Absent))
    /\ UNCHANGED <<variant, server, clients>>

\* call_tool (lines 62-105)
call_tool(s, name, arguments) ==
    /\ variant = "v3"
    /\ tasks[s].pc = "idle"
    /\ \/ name = "configure" /\ call_tool_configure(s, arguments)
       \/ name = "quote" /\ call_tool_quote(s, arguments)
       \/ name = "place_order" /\ call_tool_place_order(s, arguments)
       \/ name = "get_holdings" /\ call_tool_get_holdings(s, arguments)
       \/ name = "get_gtt_orders" /\ call_tool_get_gtt_orders(s, arguments)
       \/ /\ name \notin {"configure", "quote", "place_order", "get_holdings",
                          "get_gtt_orders"}
          /\ call_tool_no_branch(s, name, arguments)

\* uri_map of read_resource (lines 38-42)
uri_map(uri) ==
    CASE uri = "kite://portfolio" -> "holdings"
      [] uri = "kite://positions" -> "positions"
      [] uri = "kite://orders" -> "orders"
      [] OTHER -> None

\* read_resource up to its await (lines 33-44)
read_resource(s, uri) ==
    LET t == Started("read", uri, {}) IN
    /\ variant = "v3"
    /\ tasks[s].pc = "idle"
    /\ Step(s, IF kite = 0
               THEN Raise(t, ValueError(<<"Configure Kite first">>))
               ELSE IF uri_map(uri) = None THEN Raise(t, KeyError(uri))
               ELSE Dispatch(t, uri_map(uri), {}))
    /\ UNCHANGED <<variant, server, clients>>

\* read_resource after its await (lines 44-45)
read_resource_done(s) ==
    /\ variant = "v3" /\ tasks[s].kind = "read" /\ tasks[s].pc = "call"
    /\ \E o \in Outcomes(s) : LET data == o.value  e == o.e IN
         /\ Step(s, IF o.ok THEN Return(Got(tasks[s], o.value), Payload(Dumps(data)))
                    ELSE Raise(tasks[s], e))
    /\ UNCHANGED <<variant, server, clients>>

\* list_resources (lines 25-31)
list_resources(s) ==
    /\ variant = "v3"
    /\ tasks[s].pc = "idle"
    /\ Step(s, Return(Started("list", "resources", {}),
                      Payload(<<"kite://portfolio", "kite://positions", "kite://orders">>)))
    /\ UNCHANGED <<variant, server, clients>>

\* list_tools (lines 47-60)
list_tools(s) ==
    /\ variant = "v3"
    /\ tasks[s].pc = "idle"
    /\ Step(s, Return(Started("list", "tools", {}),
                      Payload(<<"configure", "quote", "place_order", "get_holdings",
                                "get_gtt_orders">>)))
    /\ UNCHANGED <<variant, server, clients>>

\* one callback at a time, every command, every argument bag
Next ==
    \/ \E name \in ToolNames : \E arguments \in AllBags(name) :
            call_kite_tool(1, name, arguments)
    \/ _configure_kite_constructed(1)
    \/ _configure_kite_token_set(1)
    \/ _configure_kite_profile(1)
    \/ _get_quote_done(1)
    \/ _place_order_done(1)
    \/ _modify_order_done(1)
    \/ _cancel_order_done(1)
    \/ _get_holdings_done(1)
    \/ _get_gtt_orders_done(1)
    \/ \E uri \in Uris : read_kite_resource(1, uri)
    \/ read_kite_resource_done(1)
    \/ list_kite_resources(1)
    \/ list_kite_tools(1)
    \/ \E name \in ToolNames : \E arguments \in AllBags(name) :
            call_tool(1, name, arguments)
    \/ call_tool_configure_profile(1)
    \/ call_tool_quote_done(1)
    \/ call_tool_place_order_done(1)
    \/ call_tool_get_holdings_done(1)
    \/ call_tool_get_gtt_orders_done(1)
    \/ \E uri \in Uris : read_resource(1, uri)
    \/ read_resource_done(1)
    \/ list_resources(1)
    \/ list_tools(1)

Spec == Init /\ [][Next]_vars

\* overlapping callbacks: configure together with a command behind each kind
\* of gate and with a resource read
OverlapNames == {"configure_kite", "get_quote", "get_gtt_orders"}
V3OverlapNames == {"configure", "quote", "get_holdings"}
OverlapUris == {"kite://portfolio", "kite://unknown"}
NextOverlap ==
    \/ \E s \in Slots, name \in OverlapNames : \E arguments \in Bags(name) :
            call_kite_tool(s, name, arguments)
    \/ \E s \in Slots : _configure_kite_constructed(s)
    \/ \E s \in Slots : _configure_kite_token_set(s)
    \/ \E s \in Slots : _configure_kite_profile(s)
    \/ \E s \in Slots : _get_quote_done(s)
    \/ \E s \in Slots : _get_gtt_orders_done(s)
    \/ \E s \in Slots, uri \in OverlapUris : read_kite_resource(s, uri)
    \/ \E s \in Slots : read_kite_resource_done(s)
    \/ \E s \in Slots : list_kite_tools(s)
    \/ \E s \in Slots, name \in V3OverlapNames : \E arguments \in Bags(name) :
            call_tool(s, name, arguments)
    \/ \E s \in Slots : call_tool_configure_profile(s)
    \/ \E s \in Slots : call_tool_quote_done(s)
    \/ \E s \in Slots : call_tool_get_holdings_done(s)
    \/ \E s \in Slots, uri \in OverlapUris : read_resource(s, uri)
    \/ \E s \in Slots : read_resource_done(s)
    \/ \E s \in Slots : list_tools(s)

SpecOverlap == Init /\ [][NextOverlap]_vars

\* overlapping read commands on a server configured by one configure call
ReadNames == {"configure_kite", "get_quote", "get_holdings"}
V3ReadNames == {"configure", "quote", "get_holdings"}
ReadBags(name) ==
    IF name \in {"configure_kite", "configure"}
    THEN {{<<"api_key", "k1">>, <<"access_token", "t1">>}}
    ELSE Bags(name)
NextReads ==
    \/ \E s \in Slots, name \in ReadNames : \E arguments \in ReadBags(name) :
            call_kite_tool(s, name, arguments)
    \/ \E s \in Slots : _configure_kite_constructed(s)
    \/ \E s \in Slots : _configure_kite_token_set(s)
    \/ \E s \in Slots : _configure_kite_profile(s)
    \/ \E s \in Slots : _get_quote_done(s)
    \/ \E s \in Slots : _get_holdings_done(s)
    \/ \E s \in Slots, name \in V3ReadNames : \E arguments \in ReadBags(name) :
            call_tool(s, name, arguments)
    \/ \E s \in Slots : call_tool_configure_profile(s)
    \/ \E s \in Slots : call_tool_quote_done(s)
    \/ \E s \in Slots : call_tool_get_holdings_done(s)

SpecReads == Init /\ [][NextReads]_vars

\* ------------------------------------------------------------------------
\* Properties
\* ------------------------------------------------------------------------
V2Tools ==
    {"configure_kite", "get_quote", "place_order", "modify_order",
     "cancel_order", "get_holdings", "get_gtt_orders"}
V3Tools == {"configure", "quote", "place_order", "get_holdings", "get_gtt_orders"}
Declared(name) == IF variant = "v2" THEN name \in V2Tools ELSE name \in V3Tools
V2Table ==
    {"kite://profile", "kite://portfolio", "kite://positions", "kite://orders",
     "kite://funds", "kite://gtt-orders"}
V3Table == {"kite://portfolio", "kite://positions", "kite://orders"}
InTable(uri) == IF variant = "v2" THEN uri \in V2Table ELSE uri \in V3Table
NotConfiguredTexts ==
    {<<" Kite not configured.">>,
     <<" Kite Connect not configured. Use configure_kite tool first.">>}

\* C1: in MCPv2, a get_quote, place_order, modify_order, cancel_order,
\* get_holdings or get_gtt_orders call entered while is_configured is false is
\* answered with a not-configured text and makes no adapter call.
C1_UnconfiguredRefused ==
    variant = "v2" =>
        /\ \A s \in Slots :
                (tasks[s].kind = "tool" /\ tasks[s].name \in V2Tools \ {"configure_kite"}
                    /\ ~tasks[s].gate) => tasks[s].calls = <<>>
        /\ (out.kind = "tool" /\ out.name \in V2Tools \ {"configure_kite"} /\ ~out.gate)
                => /\ out.calls = <<>>
                   /\ out.reply.kind = "text"
                   /\ out.reply.text \in NotConfiguredTexts

\* C2: in MCPv2, a configure call whose client construction, token setting or
\* profile round-trip raises ends with is_configured false and a text reply
\* that contains the description of what was raised, whatever the state before.
C2_ConfigureFailureSurfaced ==
    (variant = "v2" /\ out.name = "configure_kite" /\ out.calls # <<>>
        /\ out.raised # NoExc)
        => /\ ~is_configured
           /\ out.reply.kind = "text"
           /\ Contains(out.reply.text, Str(out.raised))

\* C2 witness: a configure that found the server configured and failed at the
\* profile fetch
C2_Witness ==
    /\ variant = "v2" /\ out.name = "configure_kite" /\ out.gate
    /\ Len(out.calls) = 3 /\ out.raised = AdapterError("order not found")
    /\ ~is_configured
    /\ Contains(out.reply.text, <<"order not found">>)

\* C3: in MCPv2, a configure call with both credentials whose profile
\* round-trip succeeds, with no other configure in flight, ends with
\* is_configured true, the client it built installed with its credentials, and
\* a text reply naming the user of the fetched profile.
C3_ConfigureSuccess ==
    (variant = "v2" /\ out.name = "configure_kite" /\ out.raised = NoExc)
        => /\ is_configured
           /\ kite # 0 /\ kite = out.made /\ kite = out.client
           /\ clients[kite].api_key = Get(out.args, "api_key")
           /\ clients[kite].token = Get(out.args, "access_token")
           /\ out.profile \in Profiles(Get(out.args, "api_key"))
           /\ out.reply.kind = "text"
           /\ Contains(out.reply.text, <<GetOr(out.profile, "user_name", "N/A")>>)

\* C3 witness: a configure that succeeded for the account of alice
C3_Witness ==
    /\ variant = "v2" /\ out.name = "configure_kite" /\ out.raised = NoExc
    /\ is_configured /\ kite = out.made
    /\ Contains(out.reply.text, <<"alice">>)

\* C4: in MCPv2, a tool call or resource read that reaches the adapter while a
\* configure call is in flight uses a client whose access token has been set
\* and which has passed the profile round-trip.
C4_NoPartialObservation ==
    variant = "v2" =>
        \A s \in Slots :
            (tasks[s].pc = "call" /\ tasks[s].during) => ~tasks[s].unvalidated

\* C5: in MCPv2, is_configured turns true only when a configure call completes
\* after a successful profile round-trip, the installed client then carrying
\* that call's api_key and access_token and being the client the profile was
\* fetched on; it turns false only when a configure call fails.
C5_ConfiguredTransitions ==
    [][(variant = "v2" /\ is_configured' # is_configured) =>
        IF is_configured'
        THEN /\ out'.name = "configure_kite" /\ out'.raised = NoExc
             /\ kite' # 0
             /\ out'.client = kite'
             /\ clients'[kite'].api_key = Get(out'.args, "api_key")
             /\ clients'[kite'].token = Get(out'.args, "access_token")
        ELSE out'.name = "configure_kite" /\ out'.raised # NoExc]_vars

\* C6: in MCPv3, no quote, place_order, get_holdings, get_gtt_orders call and
\* no resource read reaches the adapter unless a configure call has completed
\* a successful profile round-trip before.
C6_V3NeedsValidation ==
    variant = "v3" =>
        /\ \A s \in Slots :
                tasks[s].pc = "call" => \E c \in 1..MaxClients : clients[c].validated
        /\ (out.name # "configure" /\ out.calls # <<>>)
                => \E c \in 1..MaxClients : clients[c].validated

\* C7: for every declared command of either variant, a failure raised by the
\* adapter call or by argument extraction ends the call with a text reply that
\* contains the failure's description; it is not raised to the host.
C7_FailureDescribed ==
    (out.kind = "tool" /\ Declared(out.name) /\ out.raised # NoExc)
        => /\ out.reply.kind = "text"
           /\ Contains(out.reply.text, Str(out.raised))

\* C7 witness: cancel_order whose adapter call raised "order not found"
C7_Witness ==
    /\ out.kind = "tool" /\ out.name = "cancel_order"
    /\ out.raised = AdapterError("order not found")
    /\ out.reply.kind = "text"
    /\ Contains(out.reply.text, <<"order not found">>)

\* C8: in either variant a tool call whose name is not a declared command ends
\* with a text reply and makes no adapter call.
C8_UnknownCommandRefused ==
    (out.kind = "tool" /\ ~Declared(out.name))
        => /\ out.reply.kind = "text"
           /\ out.calls = <<>>

LacksKey(t) ==
    LET req == IF variant = "v2" THEN OrderKeys ELSE V3OrderKeys IN
    {req[i] : i \in {j \in 1..Len(req) : ~Has(t.args, req[j])}}

\* C9: once a client is installed, place_order with a bag lacking one of the
\* six required keys of its variant ends with a text reply describing the
\* missing argument, and the adapter's place_order is never invoked for it.
C9_MissingOrderKey ==
    /\ \A s \in Slots :
            (tasks[s].kind = "tool" /\ tasks[s].name = "place_order")
                => LacksKey(tasks[s]) = {}
    /\ (out.kind = "tool" /\ out.name = "place_order" /\ LacksKey(out) # {})
            => /\ out.calls = <<>>
               /\ out.reply.kind = "text"
               /\ kite # 0 => /\ out.raised \in {KeyError(k) : k \in LacksKey(out)}
                              /\ Contains(out.reply.text, Str(out.raised))

\* C9 witness: MCPv2, configured, place_order without quantity but with the
\* optional keys
C9_Witness ==
    /\ kite # 0 /\ is_configured
    /\ out.kind = "tool" /\ out.name = "place_order"
    /\ LacksKey(out) = {"quantity"} /\ Has(out.args, "trigger_price")
    /\ out.raised = KeyError("quantity") /\ out.calls = <<>>

GatePasses == IF variant = "v2" THEN _check_kite_connection ELSE kite # 0
NotConfiguredFault ==
    IF variant = "v2"
    THEN Raised(ValueError(<<" Kite Connect not configured. Use configure_kite tool first.">>))
    ELSE Raised(ValueError(<<"Configure Kite first">>))
UnknownResourceFault(t) ==
    /\ t.reply.kind = "fault"
    /\ IF variant = "v2"
       THEN /\ t.reply.exc = "ValueError"
            /\ Contains(t.reply.text, <<"Unknown resource URI: ", t.name>>)
       ELSE /\ t.reply.exc = "KeyError"
            /\ Contains(t.reply.text, <<t.name>>)

\* C10 as stated: in every connection state of either variant, reading a uri
\* outside the table fails with an unknown-resource fault that is not the
\* not-configured fault, and makes no adapter call.
C10_UnknownUriAlways ==
    (out.kind = "read" /\ ~InTable(out.name))
        => /\ out.calls = <<>>
           /\ UnknownResourceFault(out)
           /\ out.reply # NotConfiguredFault

\* C10 amended: reading a uri outside the table never calls the adapter; when
\* the read passes the configuration gate it fails with an unknown-resource
\* fault distinct from the not-configured fault, and when it does not pass the
\* gate it fails with the not-configured fault.
C10_UnknownUriGated ==
    /\ \A s \in Slots : tasks[s].kind = "read" => InTable(tasks[s].name)
    /\ (out.kind = "read" /\ ~InTable(out.name))
            => /\ out.calls = <<>>
               /\ out.reply.kind = "fault"
               /\ IF GatePasses
                  THEN UnknownResourceFault(out) /\ out.reply # NotConfiguredFault
                  ELSE out.reply = NotConfiguredFault

\* C10 witness: MCPv2, configured, kite://unknown read
C10_Witness ==
    /\ variant = "v2" /\ out.kind = "read" /\ out.name = "kite://unknown"
    /\ GatePasses
    /\ UnknownResourceFault(out)

\* a read of uri entered now is refused with the configuration-required fault
\* before any adapter call
ReadRefused(uri) ==
    ENABLED (/\ read_kite_resource(1, uri)
             /\ out'.reply = NotConfiguredFault /\ out'.calls = <<>>)
\* a call of command name entered now is refused with a not-configured text
\* before any adapter call
CommandRefused(name) ==
    ENABLED (/\ \E arguments \in AllBags(name) : call_kite_tool(1, name, arguments)
             /\ out'.reply.kind = "text" /\ out'.reply.text \in NotConfiguredTexts
             /\ out'.calls = <<>>)

\* C11: in MCPv2, whenever is_configured is false a read of any of the six
\* catalogued uris is refused with the configuration-required fault and makes
\* no adapter call, and a state refuses a read exactly when it refuses every
\* command other than configure_kite.
C11_ReadGateIsCommandGate ==
    (variant = "v2" /\ tasks[1].pc = "idle") =>
        /\ ~is_configured => \A uri \in V2Table : ReadRefused(uri)
        /\ \A uri \in V2Table, name \in V2Tools \ {"configure_kite"} :
                ReadRefused(uri) <=> CommandRefused(name)

\* the step starts, resumes or completes a configure_kite call
ConfigureStep ==
    \/ out'.name = "configure_kite"
    \/ \E s \in Slots :
            /\ tasks'[s] # tasks[s]
            /\ "configure_kite" \in {tasks[s].name, tasks'[s].name}

\* C12: in MCPv2, a step of any invocation other than configure_kite (the six
\* other tools, an unknown tool name, a resource list or read, a tool list)
\* leaves api_key, access_token, the client reference and is_configured as
\* they were, whether the invocation succeeds, is refused or the adapter raises.
C12_OnlyConfigureMutates ==
    [][(variant = "v2" /\ ~ConfigureStep) => server' = server]_vars

\* C12 witness: get_gtt_orders whose adapter call raised, on a server that is
\* still configured with its client and credentials
C12_Witness ==
    /\ variant = "v2" /\ out.kind = "tool" /\ out.name = "get_gtt_orders"
    /\ out.raised = AdapterError("order not found")
    /\ is_configured /\ kite # 0 /\ api_key = "k1" /\ access_token = "t1"

\* the adapter operation behind a read command
ReadOp(name) == IF name \in {"get_quote", "quote"} THEN "quote" ELSE "holdings"
ReadCommands == {"get_quote", "quote", "get_holdings"}
\* the read command awaited in slot s can complete now, whatever the other
\* slots are doing
CanComplete(s) ==
    ENABLED (/\ \/ _get_quote_done(s)
                \/ _get_holdings_done(s)
                \/ call_tool_quote_done(s)
                \/ call_tool_get_holdings_done(s)
             /\ out'.name = tasks[s].name /\ out'.reply.kind = "text")

\* C13: when get_quote (quote) and get_holdings calls overlap, in every
\* interleaving each call that is waiting for its worker can complete, and a
\* successful reply embeds, after its heading, the serialization of the value
\* its own adapter call returned, and nothing the other operation returns.
C13_OwnDataOnly ==
    /\ \A s \in Slots :
            (tasks[s].pc = "call" /\ tasks[s].name \in ReadCommands) => CanComplete(s)
    /\ (out.kind = "tool" /\ out.name \in ReadCommands /\ out.calls # <<>>
            /\ out.raised = NoExc)
            => /\ Len(out.calls) = 1 /\ out.calls[1].op = ReadOp(out.name)
               /\ out.result \in Results(ReadOp(out.name))
               /\ out.reply.kind = "text"
               /\ Tail(out.reply.text) = <<JsonOpen>> \o Dumps(out.result) \o <<JsonClose>>
               /\ \A other \in Results(CHOOSE op \in {"quote", "holdings"} :
                                            op # ReadOp(out.name)) :
                        other # <<>> => ~Contains(out.reply.text, other)

\* C13 witness: get_holdings completes with its own value while a get_quote
\* (quote) call dispatched on the same configured server is still waiting
C13_Witness ==
    /\ kite # 0 /\ clients[kite].validated
    /\ out.kind = "tool" /\ out.name = "get_holdings" /\ out.result = <<"h1">>
    /\ Contains(out.reply.text, <<"[", "h1", "]">>)
    /\ \E s \in Slots : tasks[s].pc = "call" /\ tasks[s].name \in {"get_quote", "quote"}

HoldingsHeading == IF variant = "v2" THEN " Current Holdings:\n" ELSE "Holdings:\n"

\* C14: in either variant, get_holdings whose adapter call returns a value,
\* the empty list included, ends with a text reply made of the holdings
\* heading and the fenced serialization of exactly that value; the empty list
\* is embedded as an empty array.
C14_HoldingsEmbedded ==
    (out.kind = "tool" /\ out.name = "get_holdings" /\ out.calls # <<>>
        /\ out.raised = NoExc)
        => /\ out.result \in Results("holdings")
           /\ out.reply = TextContent(<<HoldingsHeading, JsonOpen>> \o Dumps(out.result)
                                          \o <<JsonClose>>)
           /\ out.result = <<>> => Contains(out.reply.text, <<JsonOpen, "[", "]", JsonClose>>)

\* C14 witness: a configured server whose adapter returned the empty list
C14_Witness ==
    /\ kite # 0 /\ clients[kite].validated
    /\ out.kind = "tool" /\ out.name = "get_holdings" /\ out.raised = NoExc
    /\ Len(out.calls) = 1 /\ out.result = <<>>
    /\ Contains(out.reply.text, <<"[", "]">>)

\* the adapter operation each MCPv2 command stands for
CommandOp(name) ==
    CASE name = "get_quote" -> "quote"
      [] name = "get_holdings" -> "holdings"
      [] name = "get_gtt_orders" -> "gtts"
      [] OTHER -> name
\* the keys a MCPv2 command reads from its bag without a default
CommandKeys(name) ==
    CASE name = "get_quote" -> {"instruments"}
      [] name = "place_order" -> {OrderKeys[i] : i \in 1..Len(OrderKeys)}
      [] name \in {"modify_order", "cancel_order"} -> {"order_id"}
      [] OTHER -> {}
\* the adapter read behind each catalogued uri
UriOps ==
    {<<"kite://profile", "profile">>, <<"kite://portfolio", "holdings">>,
     <<"kite://positions", "positions">>, <<"kite://orders", "orders">>,
     <<"kite://funds", "margins">>, <<"kite://gtt-orders", "gtts">>}
ConfigureOps == <<"KiteConnect", "set_access_token", "profile">>
OneCall(t, op) == Len(t.calls) = 1 /\ t.calls[1].op = op

\* the six commands other than configure_kite: no adapter call when refused
\* or when a key is missing, else exactly one, of the command's operation
CommandCalls ==
    LET Six == V2Tools \ {"configure_kite"} IN
    /\ \A s \in Slots :
            (tasks[s].kind = "tool" /\ tasks[s].name \in Six)
                => OneCall(tasks[s], CommandOp(tasks[s].name))
    /\ (out.kind = "tool" /\ out.name \in Six)
            => IF \/ out.reply.text \in NotConfiguredTexts
                  \/ \E k \in CommandKeys(out.name) : ~Has(out.args, k)
               THEN out.calls = <<>>
               ELSE OneCall(out, CommandOp(out.name))
\* a resource read that is not refused makes exactly one adapter call, the
\* one its uri stands for
ReadCalls ==
    /\ \A s \in Slots :
            tasks[s].kind = "read"
                => \E p \in UriOps : p[1] = tasks[s].name /\ OneCall(tasks[s], p[2])
    /\ (out.kind = "read" /\ out.reply # NotConfiguredFault /\ InTable(out.name))
            => \E p \in UriOps : p[1] = out.name /\ OneCall(out, p[2])
\* configure_kite: client construction, then set_access_token, then profile
ConfigureCalls ==
    \A t \in {tasks[s] : s \in Slots} \cup {out} :
        t.name = "configure_kite"
            => /\ Len(t.calls) <= Len(ConfigureOps)
               /\ \A i \in 1..Len(t.calls) : t.calls[i].op = ConfigureOps[i]

\* C15 as stated: in MCPv2 every tool call makes at most one adapter call,
\* exactly one, of the operation matching the command, when it passes the gate
\* and argument extraction; every permitted resource read makes exactly one,
\* fixed by its uri.
C15_AtMostOneCall ==
    variant = "v2" =>
        /\ \A t \in {tasks[s] : s \in Slots} \cup {out} :
                t.kind = "tool" => Len(t.calls) <= 1
        /\ CommandCalls
        /\ ReadCalls

\* C15 amended: in MCPv2 every tool call other than configure_kite makes at
\* most one adapter call, exactly one, of the operation matching the command,
\* when it passes the gate and argument extraction; configure_kite makes up
\* to three, in the order construction, set_access_token, profile; every
\* permitted resource read makes exactly one, fixed by its uri.
C15_OneCallPerCommand ==
    variant = "v2" =>
        /\ \A t \in {tasks[s] : s \in Slots} \cup {out} :
                (t.kind = "tool" /\ t.name # "configure_kite") => Len(t.calls) <= 1
        /\ CommandCalls
        /\ ReadCalls
        /\ ConfigureCalls

\* C15 witness: a configure_kite call that completed after its three adapter
\* calls
C15_Witness ==
    /\ variant = "v2" /\ out.kind = "tool" /\ out.name = "configure_kite"
    /\ [i \in 1..Len(out.calls) |-> out.calls[i].op] = ConfigureOps
    /\ out.raised = NoExc

\* C16: in either variant, when the adapter operation behind a resource read
\* raises, the read ends with a fault raised to the host whose description
\* contains the description of what the adapter raised, not with a payload,
\* and api_key, access_token, the client reference, is_configured and the
\* clients are left as they were.
C16_ReadFaultRaised ==
    [][(out'.kind = "read" /\ out'.calls # <<>> /\ out'.raised # NoExc)
        => /\ out'.reply.kind = "fault"
           /\ Contains(out'.reply.text, Str(out'.raised))
           /\ server' = server /\ clients' = clients]_vars

\* C16 witness: a read of kite://portfolio on a configured server whose
\* holdings call raised "order not found"
C16_Witness ==
    /\ GatePasses /\ clients[kite].validated
    /\ out.kind = "read" /\ out.name = "kite://portfolio"
    /\ OneCall(out, "holdings") /\ out.raised = AdapterError("order not found")
    /\ out.reply.kind = "fault"
    /\ Contains(out.reply.text, <<"order not found">>)

\* C17: every tool call and every resource read yields exactly one reply: a
\* completed tool call has answered with a text, a completed resource read
\* with its contents or a fault, whatever the name, and a callback that is
\* still waiting for a worker has not replied yet.
C17_OneReplyEach ==
    /\ out.kind = "tool" => out.reply.kind = "text"
    /\ out.kind = "read" => out.reply.kind \in {"payload", "fault"}
    /\ \A s \in Slots : tasks[s].reply = NoReply

\* C18: in either variant every adapter invocation, client construction and
\* access-token setting included, is handed to a worker, and while an adapter
\* call is outstanding the control loop can start and complete a tool listing
\* in a free slot.
C18_AdapterCallsOffloaded ==
    /\ \A t \in {tasks[s] : s \in Slots} \cup {out} :
            \A i \in 1..Len(t.calls) : t.calls[i].worker
    /\ \A s, r \in Slots :
            (tasks[s].pc # "idle" /\ tasks[r].pc = "idle")
                => ENABLED (/\ list_kite_tools(r) \/ list_tools(r)
                            /\ out'.kind = "list" /\ out'.reply.kind = "payload")

Keys(bag) == {p[1] : p \in bag}
\* bag a carries key k once, with the value the bag b has under key from
Passes(a, k, b, from) ==
    /\ Has(b, from)
    /\ {p \in a : p[1] = k} = {<<k, Get(b, from)>>}
SixFields ==
    {"tradingsymbol", "exchange", "transaction_type", "quantity", "product",
     "order_type"}
\* the rule of the claim: what the adapter's place_order is given for bag b
PassedAsStated(a, b) ==
    /\ \A k \in SixFields : Passes(a, k, b, k)
    /\ IF Has(b, "variety") THEN Passes(a, "variety", b, "variety")
       ELSE {p \in a : p[1] = "variety"} = {<<"variety", "regular">>}
    /\ \A k \in {"price", "trigger_price"} :
            IF Has(b, k) THEN Passes(a, k, b, k) ELSE ~Has(a, k)
    /\ Keys(a) \subseteq SixFields \cup {"variety", "price", "trigger_price"}
\* what MCPv3 gives it: the symbol under key symbol, price always, variety
\* regular, no trigger_price
PassedByV3(a, b) ==
    /\ Passes(a, "tradingsymbol", b, "symbol")
    /\ \A k \in SixFields \ {"tradingsymbol"} : Passes(a, k, b, k)
    /\ {p \in a : p[1] = "variety"} = {<<"variety", "regular">>}
    /\ IF Has(b, "price") THEN Passes(a, "price", b, "price")
       ELSE {p \in a : p[1] = "price"} = {<<"price", None>>}
    /\ Keys(a) = SixFields \cup {"variety", "price"}
\* the place_order callbacks that have called the adapter
Placed ==
    {t \in {tasks[s] : s \in Slots} \cup {out} :
        t.kind = "tool" /\ t.name = "place_order" /\ t.calls # <<>>}

\* C19 as stated: in both variants the adapter's place_order is given the six
\* required fields read from the bag under their own names, variety from the
\* bag or "regular", price and trigger_price exactly when the bag has them,
\* and no other bag key.
C19_OrderFieldsBothVariants ==
    \A t \in Placed : PassedAsStated(t.calls[1].args, t.args)

\* C19 amended: MCPv2 passes the fields as stated; MCPv3 passes tradingsymbol
\* read from the bag key symbol, the five other required fields under their
\* own names, price from the bag or None when absent, variety "regular"
\* whatever the bag says, and nothing else (no trigger_price).
C19_OrderFieldsPerVariant ==
    \A t \in Placed :
        /\ t.calls[1].op = "place_order"
        /\ IF variant = "v2" THEN PassedAsStated(t.calls[1].args, t.args)
           ELSE PassedByV3(t.calls[1].args, t.args)

\* C19 witness: MCPv2 placed an order from a bag with trigger_price and a
\* stray key tag, without price or variety
C19_Witness ==
    /\ variant = "v2" /\ out \in Placed /\ out.raised = NoExc
    /\ Has(out.args, "tag") /\ ~Has(out.calls[1].args, "tag")
    /\ Has(out.calls[1].args, "trigger_price") /\ ~Has(out.calls[1].args, "price")
    /\ Get(out.calls[1].args, "variety") = "regular"

\* C20: in MCPv2, once a client is installed, modify_order with a bag that has
\* order_id makes one adapter modify_order call whose arguments are that
\* order_id and every other key and value of the bag, nothing dropped and
\* nothing added; with a bag lacking order_id it ends with a text naming the
\* missing key and makes no adapter call.
C20_ModifyPassThrough ==
    variant = "v2" =>
        /\ \A s \in Slots :
                (tasks[s].kind = "tool" /\ tasks[s].name = "modify_order")
                    => /\ Has(tasks[s].args, "order_id")
                       /\ OneCall(tasks[s], "modify_order")
                       /\ tasks[s].calls[1].args = tasks[s].args
        /\ (out.kind = "tool" /\ out.name = "modify_order" /\ kite # 0)
                => IF Has(out.args, "order_id")
                   THEN /\ OneCall(out, "modify_order")
                        /\ Passes(out.calls[1].args, "order_id", out.args, "order_id")
                        /\ Without(out.calls[1].args, "order_id")
                                = Without(out.args, "order_id")
                   ELSE /\ out.calls = <<>>
                        /\ out.raised = KeyError("order_id")
                        /\ out.reply.kind = "text"
                        /\ Contains(out.reply.text, Str(out.raised))

\* C20 witness: a configured MCPv2 modified order o1 from a bag that also
\* carries price and the key tag, all three passed to the adapter
C20_Witness ==
    /\ variant = "v2" /\ is_configured /\ kite # 0
    /\ out.kind = "tool" /\ out.name = "modify_order" /\ out.raised = NoExc
    /\ OneCall(out, "modify_order")
    /\ out.calls[1].args = {<<"order_id", "o1">>, <<"price", "101">>, <<"tag", "x">>}

\* C21: in MCPv2, in every reachable state, in the middle of a configure call
\* and under overlapping configure calls included, is_configured true implies
\* that the client reference is set, so _check_kite_connection equals
\* is_configured; and a client reference that is set is never reset to None.
C21_ConfiguredHasClient ==
    /\ [](variant = "v2" =>
            /\ is_configured => kite # 0
            /\ _check_kite_connection <=> is_configured)
    /\ [][(variant = "v2" /\ kite # 0) => kite' # 0]_vars

\* C21 witness: is_configured is true with a client installed while a later
\* configure_kite call, which has already replaced the client reference, is
\* still waiting for a worker
C21_Witness ==
    /\ variant = "v2" /\ is_configured /\ kite # 0 /\ _check_kite_connection
    /\ \E s \in Slots :
            /\ tasks[s].name = "configure_kite"
            /\ tasks[s].pc \in {"set_access_token", "profile"}
            /\ tasks[s].made = kite

====
